---------------------------- MODULE Spec2Model ----------------------------
(***************************************************************************)
(* State-machine model of app_temperatura.py: the script seeds the random  *)
(* generator, builds a 500-value training corpus with injected faults,     *)
(* fits an IsolationForest, sets up four display containers and an empty   *)
(* history, and then runs a 150-iteration loop that generates a reading,   *)
(* classifies it, appends a row to the history and refreshes the display.  *)
(*                                                                         *)
(* A temperature is an integer count of 2^-20 degree (23.0 is 23 * Grado); *)
(* the float it stands for is that count divided by 2^20, which is exact   *)
(* in binary.  A value formatted with ".2f" is an integer in hundredths.   *)
(*                                                                         *)
(* numpy's global generator (the legacy Mersenne Twister) is a             *)
(* deterministic stream fixed by the seed.  The state `rng` is the seed    *)
(* and the number of calls made since; the values the calls return are     *)
(* tabulated per seed, the script's seed 42 first.  sklearn's fitted       *)
(* forest is a fixed function of the single input value; it is modelled    *)
(* as one decision function chosen at fit time from the family `Modelos`   *)
(* and never changed afterwards.                                           *)
(*                                                                         *)
(* Line 2 of the file as committed is not Python (a git command stands     *)
(* where `numpy` belongs): the file as committed ends with a SyntaxError   *)
(* before any statement runs (ErrorDeSintaxis).  Importar is the start of  *)
(* the script the specification describes, with numpy bound to `np` as     *)
(* lines 9-78 presuppose; it is not a step of the file as committed.       *)
(***************************************************************************)
EXTENDS Integers, Sequences, FiniteSets, TLC

VARIABLES
    pc,                                   \* position of the script
    rng,                                  \* state of np.random
    temperatura_normal_entrenamiento,     \* line 12-13
    temperatura_con_fallos_entrenamiento, \* line 16-20
    model,                                \* line 26-27 (NoModel before fit)
    lectura_actual_container,             \* line 40
    estado_lectura_container,             \* line 41
    alerta_container,                     \* line 42
    historico_container,                  \* line 43
    historial_lecturas_df,                \* line 47
    i,                                    \* loop index, line 53
    nueva_lectura,                        \* line 56
    tipo_anomalia,                        \* line 57
    prediccion,                           \* line 78
    estado_lectura,                       \* line 80
    color_lectura,                        \* line 81
    mensaje_alerta,                       \* line 82
    pausas,                               \* time.sleep calls returned, line 120
    finalizada,                           \* number of st.success calls, line 122
    parada                                \* the host's stop request: -1, or the ticks finished when made

vars == << pc, rng, temperatura_normal_entrenamiento,
           temperatura_con_fallos_entrenamiento, model,
           lectura_actual_container, estado_lectura_container,
           alerta_container, historico_container, historial_lecturas_df,
           i, nueva_lectura, tipo_anomalia, prediccion, estado_lectura,
           color_lectura, mensaje_alerta, pausas, finalizada, parada >>

---------------------------------------------------------------------------
(* Bounds of the exploration.                                              *)

\* Seeds explored besides the script's own: 42 .. 42 + ExtraSeeds.
ExtraSeeds == 1

(* Program constants.                                                      *)

Semilla == 42
CorpusSize == 500
TotalTicks == 150
TableWindow == 15

\* The host's stop request is explored during the ticks 1 .. MaxStopTick.
MaxStopTick == 3

Seeds == Semilla .. (Semilla + ExtraSeeds)

\* The unit of temperature: one degree is 2^20 counts.
Grado == 2^20

Vacio == << >>
NoModel == [bajo |-> 0, alto |-> 0, entrenado |-> FALSE]

NORMAL == "Normal"
ANOMALIA == "ANOMALIA DETECTADA"
NA == "N/A"
PICO_ALTO == "Pico Alto"
CAIDA_BAJA == "Caida Baja"
VALOR_CONSTANTE == "Valor Constante"

Min(a, b) == IF a < b THEN a ELSE b
Max(a, b) == IF a > b THEN a ELSE b

---------------------------------------------------------------------------
(* np.random: seed, randn, uniform.                                        *)

\* The values returned by the successive np.random calls of the script
\* after np.random.seed(s), one table per seed: entry k is the result of
\* the k-th scalar drawn.  Where the script draws with randn (entries
\* 1..500 and the normal readings of the loop) the entry is the standard
\* normal deviate; where it draws with uniform (entries 501..515 and the
\* fault readings of the loop) it is the underlying value of [0, 1).  Both
\* are in counts of 2^-20, rounded to the nearest count.
Flujo42 ==
    <<
       520843, -144981, 679151, 1597013, -245528, -245510, 1655925, 804714,
       -492280, 568915, -485929, -488353, 253716, -2006220, -1808707, -589601,
       -1062030, 329512, -952132, -1480908, 1536844, -236744, 70808, -1493957,
       -570827, 116311, -1206904, 393948, -629815, -305863, -630935, 1942254,
       -14153, -1109090, 862501, -1280147, 219009, -2054863, -1392704, 206424,
       774338, 179693, -121266, -315730, -1550343, -754811, -483015, 1108473,
       360310, -1848682, 339827, -403788, -709804, 641389, 1081081, 976518,
       -879983, -324233, 347355, 1022933, -502451, -194678, -1160076, -1254314,
       851995, 1422121, -75508, 1052281, 379203, -676457, 378951, 1612748,
       -37566, 1640648, -2747002, 861827, 91275, -313532, 96218, -2084117,
       -230343, 374460, 1549684, -543446, -847767, -526130, 959869, 344721,
       -555494, 538200, 101793, 1015698, -736156, -343579, -411155, -1534607,
       310505, 273736, 5362, -245982, -1484124, -441079, -359362, -841249,
       -169120, 423678, 1977809, 183058, 270061, -78062, -2011977, -27802,
       63156, 2582897, -201705, 316195, -36398, -1225448, 1198337, 788459,
       829457, -953562, 1470936, -1469947, 615364, 2296859, -1038653, -593806,
       104492, -527932, -1625988, 71893, -1113906, 496598, -964086, 1625224,
       -821301, -337706, 853035, -1290655, 238509, 1370639, -1685568, 193603,
       272507, 819801, -1297037, -1384599, 547295, 311411, 262661, 363277,
       -713058, 243536, 307309, -749052, 1956406, 496850, -1249172, 688446,
       -1022028, 825318, 1214876, -860548, 1010173, 432832, 861993, 1988932,
       -257308, -790350, -932723, -855439, -80847, 357724, 290131, 867365,
       13633, 1524141, -277513, 2852304, 656060, -898795, -1122912, 505909,
       -234318, 748684, 496226, -76367, -887928, -1588432, -468205, 897999,
       224494, -1306252, 181593, 404035, -926792, 161192, 61036, -1198491,
       375167, 588025, 1135662, 1104992, -1444591, -983381, 540054, 538744,
       540067, 4039882, 598622, 1190727, 1000343, 683033, -330584, 795837,
       -810366, -248322, -508941, 85851, 2427095, -1957969, 719596, -1691055,
       -494856, 1141847, 67402, -1130097, -750050, 712610, -765845, 226973,
       47786, -683252, 2248088, 664712, -2123516, 195512, -693933, 893841,
       -831018, -120310, 529518, 907810, -1258602, -350750, -498016, -685065,
       1851213, 424654, -1322133, 962448, 2225242, 1082618, -1593175, -507756,
       1328453, -742045, 465378, 812263, -971957, -62417, -3398715, -1074148,
       -264837, -1308395, 1711707, -1499612, -461420, 137091, 1511285, -1505611,
       1219666, 10730, -1029186, 484551, 208729, -629373, 73193, -404031,
       119032, 694294, 1663059, -1297944, 2236648, -2046912, -159158, 616895,
       294641, -652948, -218232, -516949, -617994, 890872, 374358, -726568,
       943299, 322227, 852348, 660214, -869264, -587392, 783594, 640020,
       -21917, 123027, 1339729, -620308, 573673, -212014, -228255, 1152151,
       865512, 853027, 1368894, 22024, 715080, -325338, 339913, -136465,
       101708, 624067, -857967, 2194027, -1054886, -1273169, 1214367, 830119,
       654437, 658868, -12842, -940839, 79487, -710056, 1022487, -154201,
       -865597, -336997, 432990, -591108, -862161, 255525, 256866, -531568,
       -493919, 243322, -1518426, -1475833, -753343, -223816, 326010, 1547023,
       899321, -167708, -19940, -1051228, -19412, -302681, 338395, -867415,
       544574, 1607193, -114043, 421225, 723668, -420710, 234978, 13204,
       102421, -810560, 25701, 522189, 1521634, 1005868, 2257775, -804622,
       914694, 192248, 2296175, -847562, -880512, -628509, -2227066, -551294,
       -796008, 157699, 358357, 1967308, 996592, -604927, -942056, 515815,
       -1384365, 1920424, 1236733, -491966, -1796352, 1419638, -120104, 1297944,
       -1671879, -628490, 5498, 49263, -471928, 653105, -1119481, -149296,
       126139, 539428, 746182, -1179273, -1608635, 1339741, 348456, -784845,
       1626501, 121294, 1236583, 70798, 2160851, 1840608, -261058, 1018766,
       676726, 1435114, -1011796, 719377, 1109839, -1844172, -1240736, -2138290,
       -282494, 752398, 1575336, 77694, 1707727, -1447141, -1786126, -58246,
       402722, -34283, -2167870, -93449, -1367835, 702203, 384406, -985535,
       -538829, -1110666, -65724, 1001539, -1033609, 528531, -556015, -831387,
       -112229, -1085530, -580543, -1256066, 2060164, 36977, -733715, 224374,
       -117784, -231703, 644000, 794304, -556271, -603789, -288413, -2413739,
       -1588793, 1433272, 1724874, -261133, 604564, 326369, 3228441, 1173959,
       -134131, -1001957, -1684481, 213347, -793091, -1491341, -677981, -1134085,
       1769096, 924466, -8360, 1551834, 81127, -903122, 1597111, 565088,
       -1087631, -199585, -918152, -1449971, 677293, 598504, 373394, 1034436,
       635201, 248750, 106727, 160284, 257905, 168487, 195630, 298944,
       181795, 940327, 84131, -2624334, 717899, 409210, -89033, 248853,
       286867, -759171, -558451, 553980, 583808, 217583, -1750498, 569754,
       -694811, 339402, 598316, 293347, -2874099, -480897, 640282, -321615,
       669613, -1742230, -69290, -1269843, -683500, 49701, -902209, 66453,
       -403236, -631210, 797181, 1160070, 809121, -758476, 2552075, -1856235,
       -1082790, 974682, 389175, -633324, 90796, -163239, 602379, -125673,
       119254, -623395, 616907, 171606, 413613, -441434, 303851, 2176215,
       913440, -341860, 1259564, -427898, -2137128, 485155, -1057055, 1102675,
       -884521, -1657014, 16833, -250797, 863088, 935761, 100265, 654561,
       -1550410, 1199313, 354939, -435461, 650193, 1012843, 86041, -511071,
       423437, 326864, 870670, -897669, 75043, -500860, 502247, 349870,
       1087939, -534791, -282984, 836025, -1026308, -448170, -579491, 1010670,
       1020849, 1453225, 1057597, -1711505, 294612, 362489, -1865123, 1568716,
       686152, -58285, 160801, 189300, 2771986, -212700, 49194, 914488,
       114709, 761021, 504375, 234759, -828873, 494370, 1973446, 1410775,
       1670577, 979755, -536048, -94611, 819015, 2662011, 549404, -616654,
       -139881, 1123021, 4857, -611111, -1061268, -1735243, 863157, 363170,
       76879, 1331823, -858232, -1575763, 474417, -273401, -257680, -285971,
       -2827891, -56932, -242152, 730025, 1938771, 1181289, 13731
    >>

Flujo43 ==
    <<
       269903, -952612, -396889, -560900, 899755, -433072, 522389, 2107847,
       1324206, -460550, -363266, 477437, -1749720, -903962, 516854, -130352,
       2029137, -648484, -1097690, -932832, 14723, -168642, 2338702, -418503,
       57089, 927132, -113226, 582596, 414090, 877873, -1476267, 847092,
       -145001, 196271, -405440, 1739639, -2146508, 1467290, -711991, 1603257,
       1280538, 1064293, 868357, 2376380, -623856, -609505, -687755, 970089,
       -1362269, 1060285, -302451, -1119578, -1129946, -835478, -1558229, 539103,
       893167, 1005242, -656916, 322889, 5459, 725124, 466472, 94665,
       -1948614, -174672, 116262, -728522, -282251, -1362336, -336703, 530442,
       2190538, -1061903, -25139, -1008173, -97063, -234600, 873351, 1021438,
       170727, -120054, 1244102, 188525, 1590104, -1713407, 1868532, -647734,
       -1139172, -46927, -1220230, 596576, -485117, 301314, -1024814, -233241,
       101640, -197535, 1668916, 614267, 213569, -1946703, 396560, 1296187,
       -723488, -207990, -3172718, -1306134, -2185274, 109179, -157531, -110957,
       -458180, 1068642, -1292688, -77725, 625359, -188107, -95206, -865159,
       -351241, 753245, -2117560, -165705, -612594, -73722, 1859315, -468325,
       1561722, 1153757, 31349, 91337, 190039, -865255, 657288, -642460,
       37479, -2302634, -905218, 561092, -1178037, 350188, -531870, 1038248,
       1319050, 186253, -15590, 42400, -22486, 1249542, 2626541, -1398235,
       -1078222, 1429387, -1197762, -1438673, 2218128, -287598, -262296, -533547,
       609580, -1188142, 1860582, 789626, -54316, -578505, 113516, 1094682,
       2744588, 1582058, 1062105, 45137, 1292375, -363238, 348005, 1227564,
       636248, -696981, -1607230, 525857, 141177, 975165, 60702, -398022,
       1105150, 1044710, -2211650, -1592908, 136141, -68407, -196068, 863956,
       2113403, -1081552, -70798, -26614, 215266, -1283079, 490136, 38484,
       2137941, 403503, -734556, -1569880, -102702, -786065, -444251, 362443,
       246434, 203319, 1459893, 427773, 2845290, 169172, -426662, -1569816,
       -1378218, 950865, 680455, -94056, -235278, -930721, -174449, 129488,
       -2115697, 760420, -2125719, 353347, -46870, 306262, -680000, 1775741,
       752975, 666282, -187628, -78910, 928722, 1365551, 1468190, -48641,
       59456, 347163, -274497, -743718, 174545, 496315, 549144, -79205,
       -690004, 523518, 420477, -963691, 994920, 796739, -43901, -1315168,
       -1273116, 455559, -550969, -287421, -1183726, 863251, -1983684, -49986,
       372449, 641661, 505679, -1278771, -432530, -780700, -1229032, -1845784,
       501826, 1236888, -599173, 803816, 562680, -948124, -120043, 43574,
       775063, 115045, -1827582, 1919831, 407906, -1042518, -1612036, -913833,
       -367611, -712172, -498386, -1069003, 582456, -1099321, 565054, 711786,
       -1576731, -495343, 953444, 165495, 908401, 1136349, -1181663, -457416,
       303370, -297436, 346221, 1533205, -215119, 223250, -139862, -2164254,
       -887196, -233457, -492892, 821723, 1121409, -739981, 1106662, -563052,
       304486, -428203, -1426791, -834362, -1745689, 835703, 1413147, 941300,
       -333478, 726781, -2055304, 1072684, 1939902, 695987, -535798, 873013,
       57137, -1094043, -1426884, -244977, 22111, -2706301, 3050867, -467072,
       1358638, 25748, 1328584, 2323514, -574966, -361580, 622245, 1025670,
       226052, -172860, -1469239, 91728, -1080078, 1922, 1270716, 402432,
       365379, -1627068, 502535, -562671, -2040693, 1386905, -267606, 41449,
       494827, 1319612, -791593, 1528914, -47161, -843790, 114772, -667907,
       -108025, 1578037, -1983047, 68752, -17848, -330901, -488803, 713474,
       -635531, -3035281, -1583019, -324958, 949361, 581147, -2263513, 580515,
       112786, -553494, -534959, 614253, 305605, -1059656, -1141860, 115906,
       1942383, 1101223, 623074, -1119307, -854372, 693149, 838611, -848291,
       -176218, -879095, -608261, 1054385, -297228, -974767, -1557176, -154136,
       -324873, 1514856, -894218, -1004277, 657082, 228524, -6228, 168834,
       -484423, 79841, 800303, -1176213, 930350, 1120154, -545022, 3037559,
       1978438, -1786016, 1069210, 788673, -1134885, 539966, -493378, 939336,
       -1018361, -1037699, 1979589, 40732, 813727, 1036195, -138261, -437742,
       536104, 1875597, 166333, 449310, -191004, 365109, -521384, 388525,
       1040557, 1512044, 993180, 489071, 2079480, -56864, -178339, -1909608,
       348593, 714779, 1181630, -107566, 2446623, 938020, -1107281, 422516,
       -5154, 1410786, 58844, -864661, 341801, -559477, -1827770, -877039,
       167247, -564109, 1374698, -1378902, -804824, -1043165, 179711, 1454014,
       24096, -201677, 1317825, 2431839, 418958, -2024900, -1314622, 576507,
       398438, -2233156, 544432, 676381, 656435, 416153, 993276, 127639,
       982506, 668677, 746967, 453935, 535347, 652974, 398824, 699954,
       101286, 559677, 102950, 503686, -71810, -1138264, -1693102, 931470,
       -354653, -353790, -1817552, 2328991, 62497, -842690, -481265, 841974,
       -201280, 716671, 653125, 819804, 985408, -340978, 966898, -1109072,
       1574108, -143285, -534129, -637326, 310689, 775014, -200567, 459649,
       1104322, 1341780, 852134, -1324662, 527579, 820787, -262823, 639304,
       -785653, 898321, -685435, 573594, 380859, -156426, 335529, 168654,
       260412, -126672, 602222, 547335, -462393, 77395, -1190334, -256688,
       -632163, 52319, -1360820, -1375050, -1173717, 496747, -1054779, 229296,
       -1142449, 1165567, 1691488, -1084156, -1971370, 184529, 515439, 410376,
       -1017354, -349250, 1761513, 334435, 839743, 2049, 909563, 29095,
       -1106884, 858327, 698234, -1339278, 557606, 384851, 142664, 1265479,
       1588800, 1118154, 179432, 923001, 262981, -1741314, 987571, -1424082,
       -558610, -515955, 1038801, 1007953, 2155932, 439708, -631647, -1776360,
       1149490, -62345, 261712, 1755476, -300022, -191394, -697697, 524001,
       -1527540, -1074793, -240529, 438554, 1915761, -1293525, 278456, 544709,
       1054621, 829014, -223782, 290650, 399808, -31028, -1630847, -1692587,
       -374158, -2458967, 811034, 1305130, 1169930, -1147344, -125454, 176122,
       55591, 1049960, -977990, -1365570, 899411, -535002, -1551932, 1037932,
       71919, -945323, -1790056, 1683329, 188356, -856843, 317195
    >>

Flujo44 ==
    <<
       -787077, 1380301, 1306673, -1682876, -1539460, -1798382, 1949076, 91843,
       -54864, 582454, -1010202, -189081, -1240894, 634856, -997878, 378385,
       1112130, -122843, 865772, -1268581, -1248334, 230552, -223262, -1480064,
       -506442, 1260139, -740088, 26405, -410128, 202521, 366258, 619906,
       545689, 865308, 446907, 205143, -539086, -3222996, -414354, -834036,
       -737360, -1821788, 787280, -1954497, 438841, -246765, 453097, 912567,
       2106193, 1438406, 1110020, 1515546, 51195, 94717, -503586, 315268,
       1167044, -20253, -847, -669547, 1672147, 19517, 588680, -208118,
       485708, -1907458, 139382, -647055, 1371726, 813525, -293780, -759104,
       -989132, 588971, -726446, 1784424, -1102811, -693268, -1060005, -1529747,
       409525, -849812, 1213907, 33306, -1989073, -906967, -59976, 1290816,
       -559469, -352295, -1631295, 1277835, -2367310, 231754, -57852, 294843,
       627725, 1077070, 7279, -1838479, 1624486, -676727, 922053, -333848,
       762690, -68767, -472963, 894991, -2658856, -406306, -22099, 331583,
       -660409, -2075847, 290125, -1296505, 601185, 333956, -82544, 1548949,
       1182929, -1137400, -1941047, 1397897, 2349768, -821107, 255374, -1059117,
       -752519, 3041760, 404683, 41754, 112733, -1346933, 358592, 1920795,
       1519746, -553776, -954878, 682835, 17142, -143432, -815430, 835537,
       40173, -62987, 7852, 403477, -1076593, -1132360, -2699466, 319394,
       1984407, 1065614, -45865, -1213807, -414866, -702674, 335319, -309939,
       427159, -466395, -1458440, 1757006, -1447692, -1338777, -813758, -622082,
       792145, 378369, -517122, 499122, 2311227, 384478, 225142, 740650,
       -947808, 2931260, 1590488, -599136, 586390, -2200721, 342154, 2198,
       401359, -683581, 1138977, -989723, 1254109, -435585, -1946595, -524596,
       1872464, -1716861, -1131213, 335003, -1050446, -478459, -849812, 664741,
       -272604, 1255242, -1717870, 1498089, 805891, 180989, 400884, -532934,
       -1021142, 1791323, -149683, -1250275, 440838, 220791, 832166, -518491,
       -969013, -1179974, -1151319, 690198, 470320, 877069, 459613, -576102,
       2440556, -204606, -1854211, 856405, -414546, -310948, -255826, 346698,
       -1247603, -463664, -3014, 1358706, -905915, -631268, 1226599, 621125,
       168366, -783743, 1090690, -45406, 74792, 81235, 94460, 872022,
       -323712, -2447449, -379863, -68764, 107730, -756743, -1424374, 538129,
       775106, -1766813, -331199, -836836, 296481, -409379, -1598935, 1197469,
       439120, -466952, -1091608, -1254992, -276650, -2022665, 1789002, -750445,
       -73120, -446811, 212281, 947741, -2789127, 728548, -135970, 1133525,
       419497, -1633228, -1290176, 1257558, 857985, -293013, 689908, -644602,
       1033032, -295306, -822227, 173179, -258163, 523589, -461464, -105606,
       2627217, 989143, -309691, 182535, -1189173, 1561443, -175384, 1105954,
       1030089, 893061, 888670, 1037759, 2107667, 451316, 520528, -2064942,
       -629631, -1263509, 324458, 754750, 592057, -1420670, 1296367, 648625,
       -5107, -1193933, 139289, 508325, 1170053, -824614, -385029, -810201,
       363264, -142470, -61182, -657283, 944026, 1021690, 813859, -1684412,
       381978, 721762, 58130, 489328, 1223910, 734070, 1162521, 1852320,
       1183174, 472480, 471512, 358566, 905169, 301021, 704313, -167035,
       -216838, 675778, -266386, -694901, -89107, 440989, -502423, 1765574,
       -17498, -967870, 2869918, -311992, 1975483, 750014, 514761, -692869,
       197244, -786129, 812998, -102267, 66775, 2367520, -1012539, -1268900,
       -449431, 642891, 1799314, -419380, 982711, -696193, 13845, -1904569,
       -1444914, 986572, 1162712, 1051035, 489043, -2822872, -722051, -1512200,
       34791, -218507, 1017401, 1694225, 1206324, 428198, 1767808, -323231,
       1086806, -623885, 381442, 1106070, 459605, -740400, 227522, 1060755,
       1013292, 2790649, 777348, 507911, -1638654, -365930, -1200360, 1778071,
       -154243, -1282989, 145329, 68799, 724852, 503025, 665025, -18412,
       377681, -1800940, -1640800, -254779, -285602, -1495296, 1249724, 126683,
       -421343, 357601, 851636, -1755116, 858327, 255346, 736494, 751449,
       -1105886, 1316412, 1026429, 1527636, -987028, 626659, -808119, -1116585,
       1396967, -665860, 530856, -132632, 1032669, -428480, 473928, 901172,
       -2990554, -154289, -1293690, 1690581, 854217, 118637, 939330, 413689,
       -647578, 1644013, 1936954, 1094889, 1122944, 61632, -416789, 970675,
       -657621, -25418, -305480, -1003208, 624085, -58465, -116794, 1772945,
       -573047, -1086123, -754318, 442706, 1389528, 155848, -1096682, -1839049,
       -402641, 1509095, 378624, -921834, 288082, -711680, -251889, 855434,
       955633, 435687, -802081, 609489, 65972, 479547, 5121, 355940,
       188282, 970993, 404090, 142694, 276039, 983194, 517938, 472567,
       442176, 644972, 729881, -671116, 510523, 261937, 403809, 185623,
       3434742, 168892, -12128, 26823, 536144, -345780, -148513, 970097,
       1779278, 792815, 147709, 1930054, 276775, 110619, 51395, -1970421,
       -84699, 1742868, -951016, -2096375, -376396, -1050381, 309549, 229568,
       914246, 1011145, 412069, 216521, -812735, -851761, -1163909, -625383,
       -2286674, 781473, 344933, 433319, 218059, 174601, 6539, -820137,
       -463229, -25400, 15375, 682937, 878204, 105159, 42160, 457362,
       1241134, 1065585, 629406, -234407, 1529223, 864548, -796153, 1750829,
       -613668, -480996, -1180641, -480136, -750469, -58185, -2196187, 293161,
       1284738, -1648684, 447039, 251607, 729917, 921956, 1067488, 844940,
       1350675, 192438, -822348, 1042691, 528690, -1360980, 1304771, 219095,
       114558, -2616716, -688520, 256465, -839927, 1182766, -1380441, -1272765,
       -1549750, -1737368, -257397, -825442, -1117972, 60655, 127254, -654644,
       55675, 3141642, 327920, -519993, -107211, -345881, -904696, 891140,
       -868428, -1346482, 1237855, -1100766, 2018465, 1718897, 1061909, -424337,
       3051926, 1037442, -1334208, -451059, -352911, 1268930, -2085, -378654,
       1204560, -291943, 935924, 630517, 298224, -838451, 840598, 566554,
       685163, 13003, -33903, 585160, 664450, -2575049, 1739712, 649500,
       115462, -992311, 640255, -1099877, -27489, 625996, 220090
    >>

FlujoDe(s) ==
    CASE s = 42 -> Flujo42
      [] s = 43 -> Flujo43
      [] s = 44 -> Flujo44

\* The generator before np.random.seed: no stream is chosen yet.
SinSemilla == [semilla |-> -1, n |-> 0]

\* np.random.seed(s): the stream of seed s, nothing drawn yet.
RngSeed(s) == [semilla |-> s, n |-> 0]

\* The state of the generator after one more scalar is drawn.
RngNext(s) == [s EXCEPT !.n = @ + 1]

\* The state of the generator k draws after state s.
RngAt(s, k) == [s EXCEPT !.n = @ + k]

\* The states of the generator after 1, 2, .., n draws from state s.
RngStates(s, n) == [k \in 1..n |-> RngAt(s, k)]

\* np.random.randn: the standard normal deviate drawn on reaching state u.
Randn(u) == FlujoDe(u.semilla)[u.n]

\* np.random.uniform(lo, hi): lo + (hi - lo) * x, x the value of [0, 1)
\* drawn on reaching state u.
Uniform(lo, hi, u) == lo * Grado + (hi - lo) * FlujoDe(u.semilla)[u.n]

\* np.clip(x, lo, hi), lo and hi in degrees.
Clip(x, lo, hi) == Max(lo * Grado, Min(hi * Grado, x))

\* f"{x:.2f}": the result in hundredths.  Python rounds the exact binary
\* value to the nearest hundredth; a value exactly half a hundredth away
\* (which ends in .125, .375, .625 or .875) goes to the even neighbour.
Fmt2(x) ==
    LET c == (x \div Grado) * 100 + ((x % Grado) * 100) \div Grado
        resto == ((x % Grado) * 100) % Grado
    IN  IF 2 * resto > Grado THEN c + 1
        ELSE IF 2 * resto < Grado THEN c
        ELSE c + (c % 2)

\* time.strftime('%H:%M:%S'): a string of this format, set by the wall
\* clock of the machine at the moment of the call.  The clock is not part
\* of the state: a row records that it carries such a stamp, not which.
Hora == "%H:%M:%S"

---------------------------------------------------------------------------
(* PARTE 1: training corpus and model.                                     *)

\* Overwrite a[lo:hi] (0-based, hi excluded) by the values vals[1..hi-lo].
SliceAssign(a, lo, hi, vals) ==
    [j \in 1..Len(a) |->
        IF lo < j /\ j <= hi THEN vals[j - lo] ELSE a[j]]

\* 25 + 2 * np.random.randn(500), clipped to [20, 30].
NormalEntrenamiento(us) ==
    [j \in 1..Len(us) |-> Clip(25 * Grado + 2 * Randn(us[j]), 20, 30)]

\* ConFallos with the low-drop slice one index short (120:124).
ConFallos_Corto(base, us) ==
    LET a1 == SliceAssign(base, 50, 55,
                  [k \in 1..5 |-> Uniform(45, 55, us[k])])
        a2 == SliceAssign(a1, 120, 124,
                  [k \in 1..5 |-> Uniform(5, 10, us[5 + k])])
        a3 == SliceAssign(a2, 200, 205, [k \in 1..5 |-> 23 * Grado])
    IN  SliceAssign(a3, 350, 355,
                  [k \in 1..5 |-> Uniform(40, 50, us[10 + k])])

\* Lines 16-20: the faults written over a copy of the baseline; us are the
\* 15 generator states consumed, in order.
ConFallos(base, us) ==
    LET a1 == SliceAssign(base, 50, 55,
                  [k \in 1..5 |-> Uniform(45, 55, us[k])])
        a2 == SliceAssign(a1, 120, 125,
                  [k \in 1..5 |-> Uniform(5, 10, us[5 + k])])
        a3 == SliceAssign(a2, 200, 205, [k \in 1..5 |-> 23 * Grado])
    IN  SliceAssign(a3, 350, 355,
                  [k \in 1..5 |-> Uniform(40, 50, us[10 + k])])

\* The decision functions a fit may produce: values below `bajo` or above
\* `alto` are outliers.
Modelos ==
    [bajo : {10 * Grado, 21 * Grado, (47 * Grado) \div 2},
     alto : {28 * Grado, 40 * Grado, 60 * Grado},
     entrenado : {TRUE}]

\* Predict with a memory: after an outlier the next value passes as an
\* inlier (a model that updates itself on what it has flagged).
Predict_ConMemoria(m, x) ==
    IF prediccion = -1 THEN 1
    ELSE IF x < m.bajo \/ x > m.alto THEN -1 ELSE 1

\* model.predict on one value: -1 for an outlier, 1 for an inlier.
Predict(m, x) == IF x < m.bajo \/ x > m.alto THEN -1 ELSE 1

---------------------------------------------------------------------------
(* PARTE 3: helpers of the loop body.                                      *)

\* TipoDePaso with the 15-rule tested before the 10-rule.
TipoDePaso_QuinceAntes(n) ==
    IF n % 10 # 0 /\ n % 15 # 0 /\ n % 25 # 0 THEN NA
    ELSE IF n % 15 = 0 THEN CAIDA_BAJA
    ELSE IF n % 10 = 0 THEN PICO_ALTO
    ELSE IF n % 25 = 0 THEN VALOR_CONSTANTE
    ELSE NA

\* Lines 57-74: the fault type of step n.
TipoDePaso(n) ==
    IF n % 10 # 0 /\ n % 15 # 0 /\ n % 25 # 0 THEN NA
    ELSE IF n % 10 = 0 THEN PICO_ALTO
    ELSE IF n % 15 = 0 THEN CAIDA_BAJA
    ELSE IF n % 25 = 0 THEN VALOR_CONSTANTE
    ELSE NA

\* LecturaDePaso without the np.clip of line 62.
LecturaDePaso_SinClip(n, u) ==
    IF n % 10 # 0 /\ n % 15 # 0 /\ n % 25 # 0 THEN 25 * Grado + 2 * Randn(u)
    ELSE IF n % 10 = 0 THEN Uniform(45, 55, u)
    ELSE IF n % 15 = 0 THEN Uniform(5, 10, u)
    ELSE IF n % 25 = 0 THEN 23 * Grado
    ELSE 0

\* Lines 56-74: the value of step n; u is the next generator state.
LecturaDePaso(n, u) ==
    IF n % 10 # 0 /\ n % 15 # 0 /\ n % 25 # 0
        THEN Clip(25 * Grado + 2 * Randn(u), 20, 30)
    ELSE IF n % 10 = 0 THEN Uniform(45, 55, u)
    ELSE IF n % 15 = 0 THEN Uniform(5, 10, u)
    ELSE IF n % 25 = 0 THEN 23 * Grado
    ELSE 0

\* Whether step n draws from the generator (every branch but the stuck one).
ConsumeRng(n) ==
    (n % 10 # 0 /\ n % 15 # 0 /\ n % 25 # 0) \/ n % 10 = 0 \/ n % 15 = 0

\* EstadoDe with the test on the inlier label.
EstadoDe_Invertido(pred) == IF pred = 1 THEN ANOMALIA ELSE NORMAL

\* Lines 80-85: the status of a prediction.
EstadoDe(pred) == IF pred = -1 THEN ANOMALIA ELSE NORMAL

\* Lines 81-86: the colour of a prediction.
ColorDe(pred) == IF pred = -1 THEN "red" ELSE "green"

\* Lines 88-90: the alert text, as its two interpolated parts.
MensajeAlerta(tipo, lectura) == << tipo, Fmt2(lectura) >>

\* NuevaFila with the fault type tied to the status: a reading the model
\* finds normal is recorded without its injected fault type.
NuevaFila_TipoSegunEstado(lectura, estado, tipo) ==
    [Hora |-> Hora, Lectura |-> Fmt2(lectura), Estado |-> estado,
     Tipo |-> IF estado = NORMAL THEN NA ELSE tipo]

\* Lines 96-101: the history row of the current reading.
NuevaFila(lectura, estado, tipo) ==
    [Hora |-> Hora, Lectura |-> Fmt2(lectura), Estado |-> estado,
     Tipo |-> tipo]

\* Concat with the operands swapped: pd.concat([fila, df]).
Concat_AlFrente(df, fila) == << fila >> \o df

\* Concat that overwrites the last row instead of adding one.
Concat_Reemplaza(df, fila) ==
    IF df = << >> THEN << fila >> ELSE [df EXCEPT ![Len(df)] = fila]

\* pd.concat([df, fila], ignore_index=True).
Concat(df, fila) == Append(df, fila)

\* DataFrame.head(n) in place of tail(n).
DfTail_Head(df, n) == SubSeq(df, 1, Min(n, Len(df)))

\* DataFrame.tail(n), n >= 0: the last n rows, all of them if fewer.
DfTail(df, n) ==
    IF n = 0 THEN << >>
    ELSE SubSeq(df, Max(1, Len(df) - n + 1), Len(df))

\* Line 118: the background of a cell of column Estado.
Fondo(estado) == IF estado = ANOMALIA THEN "#ffe6e6" ELSE ""

\* TablaHistorico without the tail(15): the whole history is shown.
TablaHistorico_Completa(df) ==
    [tabla |-> df, fondo |-> [j \in 1..Len(df) |-> Fondo(df[j].Estado)]]

\* TablaHistorico rendered from the history before its last append.
TablaHistorico_Atrasada(df) ==
    LET t == DfTail(SubSeq(df, 1, Len(df) - 1), TableWindow)
    IN  [tabla |-> t, fondo |-> [j \in 1..Len(t) |-> Fondo(t[j].Estado)]]

\* Line 118: the styled table handed to st.dataframe.
TablaHistorico(df) ==
    LET t == DfTail(df, TableWindow)
    IN  [tabla |-> t, fondo |-> [j \in 1..Len(t) |-> Fondo(t[j].Estado)]]

---------------------------------------------------------------------------
(* The script, statement by statement.                                     *)

\* The script before its first statement.  Nothing is known of the
\* generator before it is seeded.
Init ==
    /\ pc = "import"
    /\ rng = SinSemilla
    /\ temperatura_normal_entrenamiento = << >>
    /\ temperatura_con_fallos_entrenamiento = << >>
    /\ model = NoModel
    /\ lectura_actual_container = Vacio
    /\ estado_lectura_container = Vacio
    /\ alerta_container = Vacio
    /\ historico_container = Vacio
    /\ historial_lecturas_df = << >>
    /\ i = 0
    /\ nueva_lectura = 0
    /\ tipo_anomalia = NA
    /\ prediccion = 0
    /\ estado_lectura = NORMAL
    /\ color_lectura = "green"
    /\ mensaje_alerta = Vacio
    /\ pausas = 0
    /\ finalizada = 0
    /\ parada = -1

\* Line 2 as committed: the file does not compile, the interpreter
\* raises SyntaxError and no statement of the script runs.
ErrorDeSintaxis ==
    /\ pc = "import"
    /\ pc' = "SyntaxError"
    /\ UNCHANGED << rng, temperatura_normal_entrenamiento,
                    temperatura_con_fallos_entrenamiento, model,
                    lectura_actual_container, estado_lectura_container,
                    alerta_container, historico_container,
                    historial_lecturas_df, i, nueva_lectura, tipo_anomalia,
                    prediccion, estado_lectura, color_lectura,
                    mensaje_alerta, pausas, finalizada, parada >>

\* The start of the run (Idle, about to build the corpus) that the
\* specification describes: the imports succeed, numpy is bound to `np`.
\* The file as committed takes ErrorDeSintaxis instead.
Importar ==
    /\ pc = "import"
    /\ pc' = "seed"
    /\ UNCHANGED << rng, temperatura_normal_entrenamiento,
                    temperatura_con_fallos_entrenamiento, model,
                    lectura_actual_container, estado_lectura_container,
                    alerta_container, historico_container,
                    historial_lecturas_df, i, nueva_lectura, tipo_anomalia,
                    prediccion, estado_lectura, color_lectura,
                    mensaje_alerta, pausas, finalizada, parada >>

\* Line 9: np.random.seed.
Seed ==
    /\ pc = "seed"
    /\ \E s \in Seeds : rng' = RngSeed(s)
    /\ pc' = "normal"
    /\ UNCHANGED << temperatura_normal_entrenamiento,
                    temperatura_con_fallos_entrenamiento, model,
                    lectura_actual_container, estado_lectura_container,
                    alerta_container, historico_container,
                    historial_lecturas_df, i, nueva_lectura, tipo_anomalia,
                    prediccion, estado_lectura, color_lectura,
                    mensaje_alerta, pausas, finalizada, parada >>

\* Lines 12-13: the clipped normal baseline.
GenerarNormal ==
    /\ pc = "normal"
    /\ LET us == RngStates(rng, CorpusSize)
       IN  /\ temperatura_normal_entrenamiento' = NormalEntrenamiento(us)
           /\ rng' = us[CorpusSize]
    /\ pc' = "fallos"
    /\ UNCHANGED << temperatura_con_fallos_entrenamiento, model,
                    lectura_actual_container, estado_lectura_container,
                    alerta_container, historico_container,
                    historial_lecturas_df, i, nueva_lectura, tipo_anomalia,
                    prediccion, estado_lectura, color_lectura,
                    mensaje_alerta, pausas, finalizada, parada >>

\* Lines 16-20: the injected faults.
IntroducirFallos ==
    /\ pc = "fallos"
    /\ LET us == RngStates(rng, 15)
       IN  /\ temperatura_con_fallos_entrenamiento' =
                  ConFallos(temperatura_normal_entrenamiento, us)
           /\ rng' = us[15]
    /\ pc' = "fit"
    /\ UNCHANGED << temperatura_normal_entrenamiento, model,
                    lectura_actual_container, estado_lectura_container,
                    alerta_container, historico_container,
                    historial_lecturas_df, i, nueva_lectura, tipo_anomalia,
                    prediccion, estado_lectura, color_lectura,
                    mensaje_alerta, pausas, finalizada, parada >>

\* Lines 22-27: IsolationForest(...).fit.  No condition on the corpus.
Fit ==
    /\ pc = "fit"
    /\ \E m \in Modelos : model' = m
    /\ pc' = "setup"
    /\ UNCHANGED << rng, temperatura_normal_entrenamiento,
                    temperatura_con_fallos_entrenamiento,
                    lectura_actual_container, estado_lectura_container,
                    alerta_container, historico_container,
                    historial_lecturas_df, i, nueva_lectura, tipo_anomalia,
                    prediccion, estado_lectura, color_lectura,
                    mensaje_alerta, pausas, finalizada, parada >>

\* Lines 32-49: the page, the four empty containers, the empty history.
Setup ==
    /\ pc = "setup"
    /\ lectura_actual_container' = Vacio
    /\ estado_lectura_container' = Vacio
    /\ alerta_container' = Vacio
    /\ historico_container' = Vacio
    /\ historial_lecturas_df' = << >>
    /\ pc' = "for"
    /\ UNCHANGED << rng, temperatura_normal_entrenamiento,
                    temperatura_con_fallos_entrenamiento, model, i,
                    nueva_lectura, tipo_anomalia, prediccion, estado_lectura,
                    color_lectura, mensaje_alerta, pausas, finalizada, parada >>

\* For with a test of the host's stop request at the top of each tick.
For_ConParada ==
    /\ pc = "for"
    /\ IF i < TotalTicks /\ parada = -1
          THEN /\ i' = i + 1
               /\ pc' = "generar"
          ELSE /\ i' = i
               /\ pc' = "success"
    /\ UNCHANGED << rng, temperatura_normal_entrenamiento,
                    temperatura_con_fallos_entrenamiento, model,
                    lectura_actual_container, estado_lectura_container,
                    alerta_container, historico_container,
                    historial_lecturas_df, nueva_lectura, tipo_anomalia,
                    prediccion, estado_lectura, color_lectura,
                    mensaje_alerta, pausas, finalizada, parada >>

\* For that leaves the loop one iteration early (range(1, 150)).
For_UnoMenos ==
    /\ pc = "for"
    /\ IF i < TotalTicks - 1
          THEN /\ i' = i + 1
               /\ pc' = "generar"
          ELSE /\ i' = i
               /\ pc' = "success"
    /\ UNCHANGED << rng, temperatura_normal_entrenamiento,
                    temperatura_con_fallos_entrenamiento, model,
                    lectura_actual_container, estado_lectura_container,
                    alerta_container, historico_container,
                    historial_lecturas_df, nueva_lectura, tipo_anomalia,
                    prediccion, estado_lectura, color_lectura,
                    mensaje_alerta, pausas, finalizada, parada >>

\* Line 53: for i in range(1, 151): the next index, or the end of the loop.
For ==
    /\ pc = "for"
    /\ IF i < TotalTicks
          THEN /\ i' = i + 1
               /\ pc' = "generar"
          ELSE /\ i' = i
               /\ pc' = "success"
    /\ UNCHANGED << rng, temperatura_normal_entrenamiento,
                    temperatura_con_fallos_entrenamiento, model,
                    lectura_actual_container, estado_lectura_container,
                    alerta_container, historico_container,
                    historial_lecturas_df, nueva_lectura, tipo_anomalia,
                    prediccion, estado_lectura, color_lectura,
                    mensaje_alerta, pausas, finalizada, parada >>

\* Lines 56-74: the new reading and its simulated fault type.
Generar ==
    /\ pc = "generar"
    /\ LET u == RngNext(rng)
       IN  /\ nueva_lectura' = LecturaDePaso(i, u)
           /\ tipo_anomalia' = TipoDePaso(i)
           /\ rng' = IF ConsumeRng(i) THEN u ELSE rng
    /\ pc' = "predecir"
    /\ UNCHANGED << temperatura_normal_entrenamiento,
                    temperatura_con_fallos_entrenamiento, model,
                    lectura_actual_container, estado_lectura_container,
                    alerta_container, historico_container,
                    historial_lecturas_df, i, prediccion, estado_lectura,
                    color_lectura, mensaje_alerta, pausas, finalizada, parada >>

\* Line 78: model.predict.
Predecir ==
    /\ pc = "predecir"
    /\ prediccion' = Predict(model, nueva_lectura)
    /\ pc' = "estado"
    /\ UNCHANGED << rng, temperatura_normal_entrenamiento,
                    temperatura_con_fallos_entrenamiento, model,
                    lectura_actual_container, estado_lectura_container,
                    alerta_container, historico_container,
                    historial_lecturas_df, i, nueva_lectura, tipo_anomalia,
                    estado_lectura, color_lectura, mensaje_alerta, pausas,
                    finalizada, parada >>

\* Estado whose normal branch goes on to the display without the append.
Estado_SaltaHistorial ==
    /\ pc = "estado"
    /\ IF prediccion = -1
          THEN /\ estado_lectura' = EstadoDe(prediccion)
               /\ color_lectura' = ColorDe(prediccion)
               /\ mensaje_alerta' = MensajeAlerta(tipo_anomalia, nueva_lectura)
               /\ alerta_container' = alerta_container
               /\ pc' = "historial"
          ELSE /\ estado_lectura' = EstadoDe(prediccion)
               /\ color_lectura' = ColorDe(prediccion)
               /\ mensaje_alerta' = Vacio
               /\ alerta_container' = Vacio
               /\ pc' = "interfaz"
    /\ UNCHANGED << rng, temperatura_normal_entrenamiento,
                    temperatura_con_fallos_entrenamiento, model,
                    lectura_actual_container, estado_lectura_container,
                    historico_container, historial_lecturas_df, i,
                    nueva_lectura, tipo_anomalia, prediccion, pausas,
                    finalizada, parada >>

\* Lines 80-92: status, colour and alert text; the alert container is
\* emptied when the reading is not an anomaly and left alone otherwise.
Estado ==
    /\ pc = "estado"
    /\ IF prediccion = -1
          THEN /\ estado_lectura' = EstadoDe(prediccion)
               /\ color_lectura' = ColorDe(prediccion)
               /\ mensaje_alerta' = MensajeAlerta(tipo_anomalia, nueva_lectura)
               /\ alerta_container' = alerta_container
          ELSE /\ estado_lectura' = EstadoDe(prediccion)
               /\ color_lectura' = ColorDe(prediccion)
               /\ mensaje_alerta' = Vacio
               /\ alerta_container' = Vacio
    /\ pc' = "historial"
    /\ UNCHANGED << rng, temperatura_normal_entrenamiento,
                    temperatura_con_fallos_entrenamiento, model,
                    lectura_actual_container, estado_lectura_container,
                    historico_container, historial_lecturas_df, i,
                    nueva_lectura, tipo_anomalia, prediccion, pausas,
                    finalizada, parada >>

\* Lines 96-103: the row of this reading is appended to the history.
Historial ==
    /\ pc = "historial"
    /\ historial_lecturas_df' =
           Concat(historial_lecturas_df,
                  NuevaFila(nueva_lectura, estado_lectura,
                            tipo_anomalia))
    /\ pc' = "interfaz"
    /\ UNCHANGED << rng, temperatura_normal_entrenamiento,
                    temperatura_con_fallos_entrenamiento, model,
                    lectura_actual_container, estado_lectura_container,
                    alerta_container, historico_container, i, nueva_lectura,
                    tipo_anomalia, prediccion, estado_lectura, color_lectura,
                    mensaje_alerta, pausas, finalizada, parada >>

\* Interfaz with a destructive read: the history is cut to the rows shown
\* (historial_lecturas_df = historial_lecturas_df.tail(15)).
Interfaz_Recorta ==
    /\ pc = "interfaz"
    /\ lectura_actual_container' = << Fmt2(nueva_lectura) >>
    /\ estado_lectura_container' = << color_lectura, estado_lectura >>
    /\ historico_container' = TablaHistorico(historial_lecturas_df)
    /\ historial_lecturas_df' = DfTail(historial_lecturas_df, TableWindow)
    /\ pc' = "sleep"
    /\ UNCHANGED << rng, temperatura_normal_entrenamiento,
                    temperatura_con_fallos_entrenamiento, model,
                    alerta_container, i, nueva_lectura, tipo_anomalia,
                    prediccion, estado_lectura, color_lectura,
                    mensaje_alerta, pausas, finalizada, parada >>

\* Lines 106-118: the metric, the status line and the table of the last rows.
Interfaz ==
    /\ pc = "interfaz"
    /\ lectura_actual_container' = << Fmt2(nueva_lectura) >>
    /\ estado_lectura_container' = << color_lectura, estado_lectura >>
    /\ historico_container' = TablaHistorico(historial_lecturas_df)
    /\ pc' = "sleep"
    /\ UNCHANGED << rng, temperatura_normal_entrenamiento,
                    temperatura_con_fallos_entrenamiento, model,
                    alerta_container, historial_lecturas_df, i,
                    nueva_lectura, tipo_anomalia, prediccion, estado_lectura,
                    color_lectura, mensaje_alerta, pausas, finalizada, parada >>

\* Line 120: time.sleep(0.5) returns, after half a second or more.
Sleep ==
    /\ pc = "sleep"
    /\ pausas' = pausas + 1
    /\ pc' = "for"
    /\ UNCHANGED << rng, temperatura_normal_entrenamiento,
                    temperatura_con_fallos_entrenamiento, model,
                    lectura_actual_container, estado_lectura_container,
                    alerta_container, historico_container,
                    historial_lecturas_df, i, nueva_lectura, tipo_anomalia,
                    prediccion, estado_lectura, color_lectura,
                    mensaje_alerta, finalizada, parada >>

\* Line 122: st.success, the end of the script.
Success ==
    /\ pc = "success"
    /\ finalizada' = finalizada + 1
    /\ pc' = "done"
    /\ UNCHANGED << rng, temperatura_normal_entrenamiento,
                    temperatura_con_fallos_entrenamiento, model,
                    lectura_actual_container, estado_lectura_container,
                    alerta_container, historico_container,
                    historial_lecturas_df, i, nueva_lectura, tipo_anomalia,
                    prediccion, estado_lectura, color_lectura,
                    mensaje_alerta, pausas, parada >>

\* The host asks the loop to stop (section 5 of the specification).  The
\* script has no statement that reads the request.
HostStop ==
    /\ parada = -1
    /\ pc \in {"for", "generar", "predecir", "estado", "historial",
               "interfaz", "sleep"}
    /\ i <= MaxStopTick
    /\ parada' = IF pc = "for" THEN i ELSE i - 1
    /\ UNCHANGED << pc, rng, temperatura_normal_entrenamiento,
                    temperatura_con_fallos_entrenamiento, model,
                    lectura_actual_container, estado_lectura_container,
                    alerta_container, historico_container,
                    historial_lecturas_df, i, nueva_lectura, tipo_anomalia,
                    prediccion, estado_lectura, color_lectura,
                    mensaje_alerta, pausas, finalizada >>

\* Falla with the exception caught and the loop carried on (a try/except
\* around the body with a continue).
Falla_Capturada ==
    /\ \/ /\ pc = "generar"
          /\ ConsumeRng(i)
          /\ nueva_lectura' = 0
          /\ tipo_anomalia' = NA
       \/ /\ pc = "predecir"
          /\ UNCHANGED << nueva_lectura, tipo_anomalia >>
    /\ pc' = "for"
    /\ UNCHANGED << rng, temperatura_normal_entrenamiento,
                    temperatura_con_fallos_entrenamiento, model,
                    lectura_actual_container, estado_lectura_container,
                    alerta_container, historico_container,
                    historial_lecturas_df, i, prediccion, estado_lectura,
                    color_lectura, mensaje_alerta, pausas, finalizada, parada >>

\* Lines 56-78: a call of the generation (np.random, lines 61, 65, 69) or
\* of the classification (model.predict, line 78) raises.  The loop has no
\* try/except, so the exception leaves the loop and ends the script.  The
\* generation fails after lines 56-57 have reset the reading to 0.0 and
\* the fault type to "N/A"; the stuck-value branch makes no call.
Falla ==
    /\ \/ /\ pc = "generar"
          /\ ConsumeRng(i)
          /\ nueva_lectura' = 0
          /\ tipo_anomalia' = NA
       \/ /\ pc = "predecir"
          /\ UNCHANGED << nueva_lectura, tipo_anomalia >>
    /\ pc' = "error"
    /\ UNCHANGED << rng, temperatura_normal_entrenamiento,
                    temperatura_con_fallos_entrenamiento, model,
                    lectura_actual_container, estado_lectura_container,
                    alerta_container, historico_container,
                    historial_lecturas_df, i, prediccion, estado_lectura,
                    color_lectura, mensaje_alerta, pausas, finalizada, parada >>

Next ==
    \/ ErrorDeSintaxis
    \/ Importar
    \/ Seed
    \/ GenerarNormal
    \/ IntroducirFallos
    \/ Fit
    \/ Setup
    \/ For
    \/ Generar
    \/ Predecir
    \/ Estado
    \/ Historial
    \/ Interfaz
    \/ Sleep
    \/ Success

Spec == Init /\ [][Next]_vars

\* The script is a single sequential thread: it keeps running until its end.
FairSpec == Spec /\ WF_vars(Next)

\* The script run by a host that may ask it to stop.
NextStop == Next \/ HostStop

SpecStop == Init /\ [][NextStop]_vars

\* The script with calls that may raise during a tick.
NextFalla == Next \/ Falla

SpecFalla == Init /\ [][NextFalla]_vars

---------------------------------------------------------------------------
(* Positions of the script.                                                *)

\* The reading of step i has been generated (lines 56-74 have run).
Generada == pc \in {"predecir", "estado", "historial", "interfaz", "sleep"}

\* The status of step i has been decided (lines 80-92 have run).
Decidida == pc \in {"historial", "interfaz", "sleep"}

\* The row of step i has been appended (lines 96-103 have run).
Anotada == pc \in {"interfaz", "sleep"}

\* The display of step i has been refreshed (lines 106-118 have run).
Mostrada == pc = "sleep"

\* The corpus has been built (lines 12-20 have run).
CorpusListo ==
    pc \notin {"import", "SyntaxError", "seed", "normal", "fallos"}

\* The states of the detection loop of the specification.
Fase ==
    IF pc \in {"import", "SyntaxError", "seed", "normal", "fallos", "fit",
               "setup"}
        THEN "Idle"
    ELSE IF pc = "done" THEN "Finished"
    ELSE "Running"

\* The tables the tick has handed to the display: the script makes one
\* st.dataframe call per tick and draws no chart.
Entregado == { historico_container.tabla }

---------------------------------------------------------------------------
(* The fault schedule and the readings.                                    *)

\* The fault type of step n by ordered divisibility, first match wins.
PorDivisibilidad(n) ==
    IF n % 10 = 0 THEN PICO_ALTO
    ELSE IF n % 15 = 0 THEN CAIDA_BAJA
    ELSE IF n % 25 = 0 THEN VALOR_CONSTANTE
    ELSE NA

\* C1: for every step i of 1..150 the fault type of the generated reading
\* is the one ordered divisibility gives (10, then 15, then 25, else none),
\* whatever the seed, the model and the earlier ticks: steps 30 and 50 are
\* high spikes, step 75 is a low drop, steps 25 and 125 are stuck values.
FaultSchedule ==
    Generada =>
        /\ i \in 1..TotalTicks
        /\ tipo_anomalia = PorDivisibilidad(i)
        /\ (i \in {30, 50} => tipo_anomalia = PICO_ALTO)
        /\ (i = 75 => tipo_anomalia = CAIDA_BAJA)
        /\ (i \in {25, 125} => tipo_anomalia = VALOR_CONSTANTE)

\* Step 30, divisible by 10 and by 15, has been generated as a high spike.
FaultScheduleWitness ==
    Generada /\ i = 30 /\ tipo_anomalia = PICO_ALTO

\* C2: the generated reading lies in the range of its fault type: a high
\* spike in [45, 55], a low drop in [5, 10], a stuck value exactly 23.0, a
\* normal reading in [20, 30]; it is never the placeholder 0.0.
ReadingInRange ==
    Generada =>
        /\ (tipo_anomalia = PICO_ALTO =>
                45 * Grado <= nueva_lectura /\ nueva_lectura <= 55 * Grado)
        /\ (tipo_anomalia = CAIDA_BAJA =>
                5 * Grado <= nueva_lectura /\ nueva_lectura <= 10 * Grado)
        /\ (tipo_anomalia = VALOR_CONSTANTE => nueva_lectura = 23 * Grado)
        /\ (tipo_anomalia = NA =>
                20 * Grado <= nueva_lectura /\ nueva_lectura <= 30 * Grado)
        /\ nueva_lectura # 0

\* The first reading of the run of seed 42: a normal reading whose draw
\* fell below 20 has been clipped to 20.0.
ReadingInRangeWitness ==
    /\ Generada
    /\ i = 1
    /\ rng.semilla = Semilla
    /\ tipo_anomalia = NA
    /\ nueva_lectura = 20 * Grado
    /\ 25 * Grado + 2 * Randn(rng) < 20 * Grado

---------------------------------------------------------------------------
(* Status and classification.                                              *)

\* C10: the status of the tick, the status written to its history row and
\* the status label shown are ANOMALIA exactly when the model classifies
\* the tick's value as an outlier (predict = -1), and Normal otherwise,
\* whatever the injected fault type.
StatusIffOutlier ==
    LET atipica == Predict(model, nueva_lectura) = -1
        n == Len(historial_lecturas_df)
    IN  /\ Decidida =>
              /\ estado_lectura \in {NORMAL, ANOMALIA}
              /\ estado_lectura = ANOMALIA <=> atipica
        /\ Anotada =>
              /\ historial_lecturas_df[n].Estado \in {NORMAL, ANOMALIA}
              /\ historial_lecturas_df[n].Estado = ANOMALIA <=> atipica
        /\ Mostrada =>
              (estado_lectura_container[2] = ANOMALIA <=> atipica)

\* A reading with no injected fault has been shown as an anomaly.
StatusIffOutlierWitness ==
    /\ Mostrada
    /\ tipo_anomalia = NA
    /\ Predict(model, nueva_lectura) = -1
    /\ estado_lectura_container[2] = ANOMALIA

---------------------------------------------------------------------------
(* Trailing windows of the history.                                        *)

\* The window sizes checked: none, one, the table's 15, the 50 of a chart,
\* and more than the history ever holds.
TailSizes == {0, 1, TableWindow, 50, TotalTicks + 50}

\* Row j of the last Min(n, Len(df)) rows of df.
UltimasFilas(df, n) ==
    LET k == Len(df)
        m == Min(n, k)
    IN  [j \in 1..m |-> df[k - m + j]]

\* C4: tail(n) of a history of k rows has Min(n, k) rows, which are rows
\* k - Min(n, k) + 1 .. k in arrival order; the table shown at tick k holds
\* rows Max(1, k - 14) .. k.
TailWindow ==
    LET df == historial_lecturas_df
        k == Len(df)
    IN  /\ \A n \in TailSizes :
              /\ Len(DfTail(df, n)) = Min(n, k)
              /\ DfTail(df, n) = UltimasFilas(df, n)
        /\ Mostrada =>
              /\ k = i
              /\ Len(historico_container.tabla) = k - Max(1, k - 14) + 1
              /\ \A j \in Max(1, k - 14) .. k :
                     historico_container.tabla[j - Max(1, k - 14) + 1] = df[j]

\* After 20 appends the table holds 15 rows and starts at the sixth.
TailWindowWitness ==
    /\ Mostrada
    /\ Len(historial_lecturas_df) = 20
    /\ Len(historico_container.tabla) = 15
    /\ historico_container.tabla[1] = historial_lecturas_df[6]
    /\ historico_container.tabla[1] # historial_lecturas_df[1]

---------------------------------------------------------------------------
(* Alerts.                                                                 *)

\* C3: once the status of a tick is decided, an alert is active in the
\* alert container exactly when the status is ANOMALIA, and the active
\* alert carries the fault type and the formatted value of the reading.
AlertIffAnomaly ==
    Decidida =>
        /\ estado_lectura = ANOMALIA <=> alerta_container # Vacio
        /\ (estado_lectura = ANOMALIA =>
                alerta_container = MensajeAlerta(tipo_anomalia, nueva_lectura))

---------------------------------------------------------------------------
(* What the display is handed.                                             *)

\* C5 as claimed: on every tick the display is handed the last 15 rows
\* and the last 50 rows of the history.
BothWindowsHanded ==
    Mostrada =>
        /\ DfTail(historial_lecturas_df, TableWindow) \in Entregado
        /\ DfTail(historial_lecturas_df, 50) \in Entregado

\* C5 as amended: on every tick the display is handed exactly one window
\* of the history, its last 15 rows; from tick 16 on the last 50 rows are
\* not handed over.
OnlyTableWindowHanded ==
    Mostrada =>
        /\ Entregado = { DfTail(historial_lecturas_df, TableWindow) }
        /\ (i > TableWindow =>
                DfTail(historial_lecturas_df, 50) \notin Entregado)

\* Tick 60 has rendered 15 rows of a history whose last 50 rows differ.
OnlyTableWindowHandedWitness ==
    /\ Mostrada
    /\ i = 60
    /\ Len(historico_container.tabla) = TableWindow
    /\ Len(DfTail(historial_lecturas_df, 50)) = 50

---------------------------------------------------------------------------
(* The training corpus.                                                    *)

\* The index ranges of lines 17-20, 1-based: 50:55, 120:125, 200:205 and
\* 350:355 of the array.
EnPico1(j) == 51 <= j /\ j <= 55
EnCaida(j) == 121 <= j /\ j <= 125
EnConstante(j) == 201 <= j /\ j <= 205
EnPico2(j) == 351 <= j /\ j <= 355

\* The corpus outside the second high-spike range: 500 values, the
\* baseline in [20, 30] kept outside the four ranges, [45, 55] in the first
\* high-spike range, [5, 10] in the low-drop range, 23.0 in the stuck range.
CorpusBase ==
    LET c == temperatura_con_fallos_entrenamiento
        b == temperatura_normal_entrenamiento
    IN  /\ Len(c) = CorpusSize
        /\ Len(b) = CorpusSize
        /\ \A j \in 1..CorpusSize :
              IF EnPico1(j) THEN 45 * Grado <= c[j] /\ c[j] <= 55 * Grado
              ELSE IF EnCaida(j) THEN 5 * Grado <= c[j] /\ c[j] <= 10 * Grado
              ELSE IF EnConstante(j) THEN c[j] = 23 * Grado
              ELSE IF EnPico2(j) THEN TRUE
              ELSE c[j] = b[j] /\ 20 * Grado <= c[j] /\ c[j] <= 30 * Grado

\* C9 as claimed: the corpus has 500 values, baseline values in [20, 30]
\* outside four disjoint ranges, and both high-spike ranges hold values of
\* [45, 55].
CorpusAsClaimed ==
    CorpusListo =>
        /\ CorpusBase
        /\ \A j \in 351..355 :
              /\ 45 * Grado <= temperatura_con_fallos_entrenamiento[j]
              /\ temperatura_con_fallos_entrenamiento[j] <= 55 * Grado

\* C9 as amended: as claimed, except that the second high-spike range
\* (indices 350..354) holds values of [40, 50].
CorpusSecondSpikeLower ==
    CorpusListo =>
        /\ CorpusBase
        /\ \A j \in 351..355 :
              /\ 40 * Grado <= temperatura_con_fallos_entrenamiento[j]
              /\ temperatura_con_fallos_entrenamiento[j] <= 50 * Grado

\* A corpus whose second high-spike range holds a value below 45.
CorpusSecondSpikeLowerWitness ==
    /\ pc = "fit"
    /\ \E j \in 351..355 :
           temperatura_con_fallos_entrenamiento[j] < 45 * Grado
    /\ \E j \in 1..CorpusSize :
           temperatura_con_fallos_entrenamiento[j] = 30 * Grado

---------------------------------------------------------------------------
(* Termination.                                                            *)

\* C7: with no failure (the script compiles), the run terminates; the loop
\* index goes through 1..150 one by one, the phases go Idle, Running,
\* Finished, the completion message is shown once and only after the last
\* tick, and the finished run has 150 rows.
Termination ==
    /\ [](pc # "SyntaxError") => <>(pc = "done")
    /\ [](pc = "done" =>
            /\ i = TotalTicks
            /\ Len(historial_lecturas_df) = 150
            /\ finalizada = 1)
    /\ [](finalizada \in {0, 1})
    /\ [](finalizada = 1 => pc = "done" /\ Len(historial_lecturas_df) = 150)
    /\ [](Len(historial_lecturas_df) \in {i - 1, i})
    /\ [][i' = i \/ (i' = i + 1 /\ pc = "for" /\ pc' = "generar")]_vars
    /\ [][\/ Fase' = Fase
          \/ Fase = "Idle" /\ Fase' = "Running"
          \/ Fase = "Running" /\ Fase' = "Finished" /\ finalizada' = 1]_vars

\* The finished run: 150 ticks, 150 rows, one completion message.
TerminationWitness ==
    /\ pc = "done"
    /\ i = 150
    /\ Len(historial_lecturas_df) = 150
    /\ finalizada = 1

---------------------------------------------------------------------------
(* The host's stop request.                                                *)

\* A history row with its four fields set.
FilaCompleta(r) ==
    /\ DOMAIN r = {"Hora", "Lectura", "Estado", "Tipo"}
    /\ r.Hora = Hora
    /\ r.Lectura \in Nat /\ r.Lectura > 0
    /\ r.Estado \in {NORMAL, ANOMALIA}
    /\ r.Tipo \in {NA, PICO_ALTO, CAIDA_BAJA, VALOR_CONSTANTE}

\* C6 as claimed: once the stop request is made, no further tick starts.
StopSignalObeyed ==
    [][parada >= 0 => ~(pc = "for" /\ pc' = "generar")]_vars

\* C6 as amended: the loop reads no stop request: at the top of a tick,
\* with fewer than 150 ticks run, the script's only step starts the next
\* tick, requested stop or not; and at the top of every tick the history
\* holds exactly the complete rows of the i ticks finished so far.
NoStopCheck ==
    /\ [](pc = "for" =>
            /\ Len(historial_lecturas_df) = i
            /\ \A j \in 1..i : FilaCompleta(historial_lecturas_df[j]))
    /\ [][(pc = "for" /\ i < TotalTicks /\ pc' # pc) =>
              (pc' = "generar" /\ i' = i + 1)]_vars

\* Two whole ticks have run after the stop request was made.
NoStopCheckWitness ==
    /\ parada >= 0
    /\ pc = "for"
    /\ i >= parada + 3
    /\ Len(historial_lecturas_df) = i

---------------------------------------------------------------------------
(* Failures during a tick.                                                 *)

\* C11: a failure of the generation or of the classification during tick
\* k ends the run: no step follows it (no later tick, no retry of tick k,
\* no completion message), and the history holds exactly the rows of the
\* ticks 1..k-1, all complete.
FailureIsFatal ==
    /\ [](pc = "error" =>
            /\ finalizada = 0
            /\ Len(historial_lecturas_df) = i - 1
            /\ \A j \in 1..(i - 1) : FilaCompleta(historial_lecturas_df[j]))
    /\ [][pc # "error"]_vars
    /\ [][/\ pc = "generar" => pc' \in {"predecir", "error"}
          /\ pc = "predecir" => pc' \in {"estado", "error"}]_vars
    /\ [][pc' = "error" =>
              /\ pc \in {"generar", "predecir"}
              /\ historial_lecturas_df' = historial_lecturas_df
              /\ i' = i
              /\ finalizada' = 0]_vars

\* Tick 5 has failed in the generation, after the reset of lines 56-57,
\* with four rows in the history.
FailureIsFatalWitness ==
    /\ pc = "error"
    /\ i = 5
    /\ nueva_lectura = 0
    /\ Len(historial_lecturas_df) = 4

---------------------------------------------------------------------------
(* The history as a log of the ticks.                                      *)

\* C12: the history is append-only: every step leaves the rows it holds
\* unchanged in content and position and adds at most one row, at the
\* end; no row is deleted, reordered or inserted elsewhere.
AppendOnly ==
    [][/\ Len(historial_lecturas_df') \in
              {Len(historial_lecturas_df), Len(historial_lecturas_df) + 1}
       /\ \A j \in 1..Len(historial_lecturas_df) :
              historial_lecturas_df'[j] = historial_lecturas_df[j]]_vars

\* Tick 40 has appended its row behind the 39 rows of the earlier ticks.
AppendOnlyWitness ==
    /\ pc = "interfaz"
    /\ i = 40
    /\ Len(historial_lecturas_df) = 40
    /\ historial_lecturas_df[40].Tipo = PICO_ALTO
    /\ historial_lecturas_df[39].Tipo = NA

\* The steps of the script inside the loop, in the order of the code.
PasoSiguiente ==
    { << "for", "generar" >>, << "generar", "predecir" >>,
      << "predecir", "estado" >>, << "estado", "historial" >>,
      << "historial", "interfaz" >>, << "interfaz", "sleep" >>,
      << "sleep", "for" >>, << "for", "success" >>,
      << "success", "done" >> }

\* The row the current reading gives.
FilaActual ==
    [Hora |-> Hora, Lectura |-> Fmt2(nueva_lectura),
     Estado |-> estado_lectura, Tipo |-> tipo_anomalia]

\* C13: each tick makes one reading, appends one row and refreshes the
\* display once: the reading changes only in the generation step, the
\* history grows by one row only in the append step, the reading and table
\* containers change only in the display step, and each tick passes each
\* of these steps once; after k ticks the history has k rows and row j is
\* the row of step j (its fault type is that of step j, and the last row is
\* the row of the current reading).
OneRowPerTick ==
    /\ [](pc \in {"for", "interfaz", "sleep", "success", "done"} =>
            Len(historial_lecturas_df) = i)
    /\ [](pc \in {"generar", "predecir", "estado", "historial"} =>
            Len(historial_lecturas_df) = i - 1)
    /\ [](\A j \in 1..Len(historial_lecturas_df) :
            historial_lecturas_df[j].Tipo = PorDivisibilidad(j))
    /\ [](Anotada => historial_lecturas_df[i] = FilaActual)
    /\ [][Fase = "Running" /\ pc' # pc =>
              << pc, pc' >> \in PasoSiguiente]_vars
    /\ [][nueva_lectura' # nueva_lectura => pc = "generar"]_vars
    /\ [][Len(historial_lecturas_df') # Len(historial_lecturas_df) =>
              pc = "historial"]_vars
    /\ [][(\/ historico_container' # historico_container
           \/ lectura_actual_container' # lectura_actual_container) =>
              pc = "interfaz"]_vars

\* Sixty ticks are complete: sixty rows, the last one of step 60.
OneRowPerTickWitness ==
    /\ pc = "for"
    /\ i = 60
    /\ Len(historial_lecturas_df) = 60
    /\ historial_lecturas_df[60].Tipo = PICO_ALTO
    /\ historial_lecturas_df[45].Tipo = CAIDA_BAJA
    /\ lectura_actual_container = << historial_lecturas_df[60].Lectura >>

---------------------------------------------------------------------------
(* Reading a trailing window.                                              *)

\* C14: the read of the trailing window in the display step has no side
\* effect and can be repeated: the step leaves the history unchanged, and
\* a second tail(15) taken right after it, with no append in between,
\* returns the very rows the first read put in the table.
TailReadPure ==
    [][pc = "interfaz" /\ pc' = "sleep" =>
           /\ historial_lecturas_df' = historial_lecturas_df
           /\ historico_container'.tabla =
                  DfTail(historial_lecturas_df', TableWindow)]_vars

\* The table of tick 20 has been read from a history of 20 rows, which
\* still has its 20 rows after the read.
TailReadPureWitness ==
    /\ Mostrada
    /\ i = 20
    /\ Len(historial_lecturas_df) = 20
    /\ historico_container.tabla = DfTail(historial_lecturas_df, TableWindow)
    /\ Len(historico_container.tabla) < Len(historial_lecturas_df)

---------------------------------------------------------------------------
(* The order of the steps of a tick.                                       *)

\* The step of lines 80-92 on a reading classified normal: it empties
\* the alert container (line 92).
LimpiaAlerta == pc = "estado" /\ pc' = "historial" /\ prediccion # -1

\* C15 as claimed, its last sentence: the alert is not cleared before the
\* row of the tick has been appended.
ClearAfterAppend ==
    [][LimpiaAlerta => Len(historial_lecturas_df) = i]_vars

\* C15 as amended: a tick generates the reading, classifies it, decides
\* the status and in that same step builds the alert text (anomaly) or
\* empties the alert container (normal), then appends the row, then hands
\* the table to the display, then pauses.  The alert container is emptied
\* before the row of the tick is appended.
TickOrder ==
    /\ [][Fase = "Running" /\ pc' # pc =>
              << pc, pc' >> \in PasoSiguiente]_vars
    /\ [][pc = "predecir" /\ pc' # pc =>
              /\ nueva_lectura # 0
              /\ prediccion' = Predict(model, nueva_lectura)
              /\ Len(historial_lecturas_df) = i - 1]_vars
    /\ [][pc = "estado" /\ pc' # pc =>
              /\ Len(historial_lecturas_df) = i - 1
              /\ historial_lecturas_df' = historial_lecturas_df
              /\ estado_lectura' = EstadoDe(prediccion)
              /\ (prediccion # -1 => alerta_container' = Vacio)
              /\ IF prediccion = -1
                    THEN mensaje_alerta' =
                             MensajeAlerta(tipo_anomalia, nueva_lectura)
                    ELSE mensaje_alerta' = Vacio]_vars
    /\ [][LimpiaAlerta =>
              Len(historial_lecturas_df') = i - 1 /\ pc' = "historial"]_vars
    /\ [][pc = "historial" /\ pc' # pc =>
              /\ estado_lectura' = estado_lectura
              /\ alerta_container' = alerta_container
              /\ Len(historial_lecturas_df') = i
              /\ historial_lecturas_df'[i].Estado = estado_lectura
              /\ historico_container' = historico_container]_vars
    /\ [][pc = "interfaz" /\ pc' # pc =>
              /\ Len(historial_lecturas_df) = i
              /\ historico_container' = TablaHistorico(historial_lecturas_df)
              /\ pausas' = pausas]_vars
    /\ [][pc = "sleep" /\ pc' # pc =>
              /\ pausas' = pausas + 1
              /\ historico_container = TablaHistorico(historial_lecturas_df)
              /\ pc' = "for"]_vars

\* Tick 7, a normal reading: the alert container has been emptied and the
\* row of the tick is not yet in the history.
TickOrderWitness ==
    /\ pc = "historial"
    /\ i = 7
    /\ prediccion = 1
    /\ estado_lectura = NORMAL
    /\ alerta_container = Vacio
    /\ Len(historial_lecturas_df) = 6

---------------------------------------------------------------------------
(* The trained model.                                                      *)

\* C16: the model is set once, by the fit, and no tick changes it; every
\* classification is made after the fit and is the fitted model's verdict
\* on the value of the tick alone, so the same value gets the same status
\* at different ticks (the stuck value 23.0 of steps 25 and 125).
ModelFixed ==
    /\ [][model' # model => pc = "fit" /\ model'.entrenado]_vars
    /\ [](Fase # "Idle" => model.entrenado)
    /\ [][prediccion' # prediccion =>
              pc = "predecir" /\ model.entrenado]_vars
    /\ [](pc \in {"estado", "historial", "interfaz", "sleep"} =>
            prediccion = (IF \/ nueva_lectura < model.bajo
                             \/ nueva_lectura > model.alto
                          THEN -1 ELSE 1))
    /\ [](\A j, k \in 1..Len(historial_lecturas_df) :
            (/\ historial_lecturas_df[j].Tipo = VALOR_CONSTANTE
             /\ historial_lecturas_df[k].Tipo = VALOR_CONSTANTE) =>
                historial_lecturas_df[j].Estado =
                    historial_lecturas_df[k].Estado)

\* The stuck value 23.0 has been classified at tick 25 and at tick 125,
\* both times as an anomaly, by a model that flags values below 23.5.
ModelFixedWitness ==
    /\ Len(historial_lecturas_df) >= 125
    /\ model.entrenado
    /\ historial_lecturas_df[25].Tipo = VALOR_CONSTANTE
    /\ historial_lecturas_df[25].Estado = ANOMALIA
    /\ historial_lecturas_df[125].Estado = ANOMALIA

---------------------------------------------------------------------------
(* The display against the history.                                        *)

\* C17: the table rendered in tick k is not empty and ends with the row
\* of step k: its last row is the last row of the history, it carries the
\* reading and the status shown in the metric and in the status line of
\* the same tick.
DisplayNotLagging ==
    Mostrada =>
        LET t == historico_container.tabla
            n == Len(historico_container.tabla)
        IN  /\ n >= 1
            /\ Len(historial_lecturas_df) = i
            /\ t[n] = historial_lecturas_df[i]
            /\ t[n].Lectura = Fmt2(nueva_lectura)
            /\ t[n].Tipo = tipo_anomalia
            /\ lectura_actual_container = << t[n].Lectura >>
            /\ estado_lectura_container = << color_lectura, t[n].Estado >>
            /\ historico_container.fondo[n] = Fondo(estado_lectura)

\* The table of tick 31 ends with the normal row of step 31, behind the
\* high-spike row of step 30.
DisplayNotLaggingWitness ==
    /\ Mostrada
    /\ i = 31
    /\ Len(historico_container.tabla) = TableWindow
    /\ historico_container.tabla[TableWindow].Tipo = NA
    /\ historico_container.tabla[TableWindow - 1].Tipo = PICO_ALTO

---------------------------------------------------------------------------
(* Fault type and status.                                                  *)

\* C18: the fault type in the row of step i, and in the alert text of the
\* tick, is the generator's fault type for step i, whatever the model's
\* classification of the reading.
FaultTypeKept ==
    /\ Decidida =>
          /\ tipo_anomalia = PorDivisibilidad(i)
          /\ (prediccion = -1 =>
                  mensaje_alerta = << PorDivisibilidad(i),
                                      Fmt2(nueva_lectura) >>)
    /\ Anotada =>
          /\ historial_lecturas_df[i].Tipo = tipo_anomalia
          /\ (historial_lecturas_df[i].Estado = ANOMALIA <=> prediccion = -1)
    /\ \A j \in 1..Len(historial_lecturas_df) :
          /\ historial_lecturas_df[j].Estado \in {NORMAL, ANOMALIA}
          /\ historial_lecturas_df[j].Tipo =
                 (IF j % 10 = 0 THEN PICO_ALTO
                  ELSE IF j % 15 = 0 THEN CAIDA_BAJA
                  ELSE IF j % 25 = 0 THEN VALOR_CONSTANTE
                  ELSE NA)

\* Status and fault type vary independently: one history holds an anomaly
\* with no injected fault and an injected fault with status Normal.
FaultTypeKeptWitness ==
    /\ \E j \in 1..Len(historial_lecturas_df) :
          /\ historial_lecturas_df[j].Estado = ANOMALIA
          /\ historial_lecturas_df[j].Tipo = NA
    /\ \E j \in 1..Len(historial_lecturas_df) :
          /\ historial_lecturas_df[j].Estado = NORMAL
          /\ historial_lecturas_df[j].Tipo # NA

=============================================================================
